---- MODULE Spec2Model ----
(***************************************************************************)
(* Model of the EPQ anxiety-lexicon pipeline: analysis.py (the batch run   *)
(* main(), analyze_posts, analyze_anxiety_words, chi_square_test,          *)
(* write_to_csv) and download.py (scrape_subreddit, save_to_file).         *)
(*                                                                         *)
(* Numbers.  Python floats are modelled as exact rationals                 *)
(* [k |-> "num", n, d] in lowest terms; None, float('inf') and nan are the *)
(* records None, Inf and NaN.  A chi-square p-value is the record          *)
(* [k |-> "sf", n, d]: the survival function of the chi-square             *)
(* distribution with 1 degree of freedom at n/d.                           *)
(*                                                                         *)
(* File names.  A name is a sequence of parts; the part Suffix stands for  *)
(* the text "_posts.json" and every other part for text that does not      *)
(* overlap it, so "askreddit_posts.json" is <<"askreddit", Suffix>>.       *)
(***************************************************************************)
EXTENDS Integers, Sequences, FiniteSets, TLC

\* ------------------------------------------------------------------ bounds
MaxTokens == 2          \* longest token stream of a corpus file
MaxTotal  == 6          \* largest total_words drawn for chi_square_test
MaxWords  == 5          \* longest token stream analysed directly
MaxStored   == 2        \* most items in the posts file scrape_subreddit finds
MaxFetched  == 4        \* most posts returned by fetch_subreddit_posts
MaxInterval == 2        \* largest save_interval

\* ------------------------------------------------------------- arithmetic
Abs(x) == IF x < 0 THEN -x ELSE x

RECURSIVE GCD(_, _)
GCD(a, b) == IF b = 0 THEN a ELSE GCD(b, a % b)

\* the rational n/d in lowest terms, with a positive denominator
Reduced(n, d, g) == [k |-> "num", n |-> n \div g, d |-> d \div g]
Num(n, d) ==
    IF d < 0 THEN Reduced(-n, -d, GCD(Abs(n), -d)) ELSE Reduced(n, d, GCD(Abs(n), d))

Whole(n) == Num(n, 1)
None   == [k |-> "None", n |-> 0, d |-> 1]
Inf    == [k |-> "inf",  n |-> 1, d |-> 0]
NaN    == [k |-> "nan",  n |-> 0, d |-> 0]

\* products are formed after cancelling common factors, to stay in range
RNeg(x)    == [k |-> "num", n |-> -x.n, d |-> x.d]
RInv(x)    == IF x.n < 0 THEN [k |-> "num", n |-> -x.d, d |-> -x.n]
              ELSE [k |-> "num", n |-> x.d, d |-> x.n]
SumOver(x, y, g) ==
    Num(x.n * (y.d \div g) + y.n * (x.d \div g), (x.d \div g) * y.d)
RAdd(x, y) == SumOver(x, y, GCD(x.d, y.d))
RSub(x, y) == RAdd(x, RNeg(y))
ProductOver(x, y, g1, g2) ==
    Num((x.n \div g1) * (y.n \div g2), (x.d \div g2) * (y.d \div g1))
RMul(x, y) == IF x.n = 0 \/ y.n = 0 THEN Num(0, 1)
              ELSE ProductOver(x, y, GCD(Abs(x.n), y.d), GCD(Abs(y.n), x.d))
RDiv(x, y) == RMul(x, RInv(y))
\* a/b < c/d for a, c >= 0 and b, d > 0, by integer parts and remainders
RECURSIVE FracLess(_, _, _, _)
FracLess(a, b, c, d) ==
    IF a \div b # c \div d THEN a \div b < c \div d
    ELSE IF c % d = 0 THEN FALSE
    ELSE IF a % b = 0 THEN TRUE
    ELSE FracLess(d, c % d, b, a % b)
RLt(x, y)  == IF x.n < 0 /\ y.n >= 0 THEN TRUE
              ELSE IF x.n >= 0 /\ y.n < 0 THEN FALSE
              ELSE IF x.n < 0 THEN FracLess(-y.n, y.d, -x.n, x.d)
              ELSE FracLess(x.n, x.d, y.n, y.d)
RAbs(x)    == Num(Abs(x.n), x.d)
RMin(x, y) == IF RLt(y, x) THEN y ELSE x
RSign(x)   == IF x.n > 0 THEN Whole(1) ELSE IF x.n < 0 THEN Whole(-1) ELSE Whole(0)
IsZero(x)  == x.k = "num" /\ x.n = 0

\* Python truthiness of a number or None (analysis.py:79 "if baseline_ratio")
Truthy(x) == x.k # "None" /\ ~IsZero(x)

\* ------------------------------------------------------------ the lexicon
anxiety_words == <<
    "anxiety", "panic", "stress", "fear", "worry", "nervous", "anxious", "overwhelmed",
    "dread", "scared", "terror", "phobia", "obsession", "compulsion", "trembling",
    "shaking", "insomnia", "nausea", "sweating", "breathless", "hyperventilating",
    "palpitations", "therapy", "medication", "psychiatrist", "psychologist", "counseling",
    "depression", "trauma", "disorder", "attack", "agoraphobia", "claustrophobia",
    "social", "ocd", "ptsd", "gad", "overthinking", "catastrophizing", "avoidance",
    "reassurance", "rumination", "trigger", "coping", "mindfulness", "meditation",
    "breathing", "xanax", "zoloft", "prozac", "lexapro", "ssri", "benzodiazepine",
    "klonopin", "valium", "ativan", "buspar", "antidepressant", "symptoms", "diagnosis",
    "recovery", "relapse", "chest", "tight", "dizzy", "lightheaded", "ibs", "stomach",
    "tension", "muscle", "headache", "fatigue", "exhaustion", "tired", "irritable",
    "health", "doctor", "hospital", "er", "emergency", "medicine", "pharmacist",
    "prescription", "dose", "side-effects", "withdrawal", "dependence", "addiction",
    "tolerance", "cbt", "exposure", "relaxation", "grounding", "techniques", "self-care",
    "support", "group", "helpline", "crisis", "mental", "brain", "heart", "racing", "sleep" >>

\* "word in anxiety_words" (analysis.py:140)
Lexicon == {anxiety_words[i] : i \in DOMAIN anxiety_words}
InLexicon(word) == word \in Lexicon

\* --------------------------------------------------------------- Counter
\* collections.Counter keeps its keys in order of first insertion.
RECURSIVE FirstSeen(_, _)
FirstSeen(words, acc) ==
    IF words = <<>> THEN acc
    ELSE IF \E i \in DOMAIN acc : acc[i] = Head(words)
         THEN FirstSeen(Tail(words), acc)
         ELSE FirstSeen(Tail(words), Append(acc, Head(words)))

Occurrences(w, words) == Cardinality({i \in DOMAIN words : words[i] = w})

\* Counter(words).items(): <<word, count>> pairs in first-insertion order
Counter(words) ==
    LET keys == FirstSeen(words, <<>>)
    IN  [i \in DOMAIN keys |-> <<keys[i], Occurrences(keys[i], words)>>]

\* An insertion that puts the new pair in front of the pairs of equal count,
\* as an unstable descending sort may: ties come out in reverse order.
InsertBeforeEqualCounts(sorted, item) ==
    LET before == {i \in DOMAIN sorted : sorted[i][2] > item[2]}
        pos    == IF before = {} THEN 0
                  ELSE CHOOSE i \in before : \A j \in before : j <= i
    IN  SubSeq(sorted, 1, pos) \o <<item>> \o SubSeq(sorted, pos + 1, Len(sorted))

\* sorted(items, key=count, reverse=True) and Counter.most_common(): a stable
\* sort, so pairs of equal count keep their relative order.
InsertStable(sorted, item) ==
    LET before == {i \in DOMAIN sorted : sorted[i][2] >= item[2]}
        pos    == IF before = {} THEN 0
                  ELSE CHOOSE i \in before : \A j \in before : j <= i
    IN  SubSeq(sorted, 1, pos) \o <<item>> \o SubSeq(sorted, pos + 1, Len(sorted))

RECURSIVE SortByCountDesc(_, _)
SortByCountDesc(items, acc) ==
    IF items = <<>> THEN acc
    ELSE SortByCountDesc(Tail(items), InsertStable(acc, Head(items)))

most_common(words) == SortByCountDesc(Counter(words), <<>>)

\* --------------------------------------------------- analyze_anxiety_words
\* anxiety_counts[word] = 1 in place of += 1: a repeated marker keeps count 1.
AssignOne(anxiety_counts, word) ==
    IF \E i \in DOMAIN anxiety_counts : anxiety_counts[i][1] = word
    THEN anxiety_counts
    ELSE Append(anxiety_counts, <<word, 1>>)

\* anxiety_counts[word] += 1 on a Counter kept as <<word, count>> pairs in
\* insertion order: a missing key is inserted at the end with count 1.
Increment(anxiety_counts, word) ==
    IF \E i \in DOMAIN anxiety_counts : anxiety_counts[i][1] = word
    THEN [i \in DOMAIN anxiety_counts |->
             IF anxiety_counts[i][1] = word
             THEN <<word, anxiety_counts[i][2] + 1>>
             ELSE anxiety_counts[i]]
    ELSE Append(anxiety_counts, <<word, 1>>)

\* The loop of lines 138-142 over the rest of the words, from the current
\* anxiety_counts and total_anxiety_words (Counter() and 0 at line 133-135).
RECURSIVE CountMarkers(_, _, _)
CountMarkers(words, anxiety_counts, total_anxiety_words) ==
    IF words = <<>>
    THEN [anxiety_counts |-> anxiety_counts, total_anxiety_words |-> total_anxiety_words]
    ELSE IF InLexicon(Head(words))
    THEN CountMarkers(Tail(words), Increment(anxiety_counts, Head(words)),
                      total_anxiety_words + 1)
    ELSE CountMarkers(Tail(words), anxiety_counts, total_anxiety_words)

\* analyze_anxiety_words dividing the marker occurrences by the number of
\* distinct words of the text instead of by the number of words.
analyze_anxiety_words_over_distinct(words) ==
    LET Stats(anxiety_counts, total_anxiety_words, total_words) ==
            [ anxiety_counts          |-> SortByCountDesc(anxiety_counts, <<>>),
              total_anxiety_words     |-> total_anxiety_words,
              unique_anxiety_words    |-> Len(anxiety_counts),
              percentage_of_all_words |->
                  IF total_words > 0
                  THEN RMul(Num(total_anxiety_words, total_words), Whole(100))
                  ELSE Whole(0),
              percentage_of_anxiety_list_found |->
                  IF Len(anxiety_words) > 0
                  THEN RMul(Num(Len(anxiety_counts), Len(anxiety_words)), Whole(100))
                  ELSE Whole(0) ]
        Counted(loop) == Stats(loop.anxiety_counts, loop.total_anxiety_words,
                               Len(Counter(words)))
    IN  Counted(CountMarkers(words, <<>>, 0))

analyze_anxiety_words(words) ==
    LET Stats(anxiety_counts, total_anxiety_words, total_words) ==
            [ anxiety_counts          |-> SortByCountDesc(anxiety_counts, <<>>),
              total_anxiety_words     |-> total_anxiety_words,
              unique_anxiety_words    |-> Len(anxiety_counts),
              percentage_of_all_words |->
                  IF total_words > 0
                  THEN RMul(Num(total_anxiety_words, total_words), Whole(100))
                  ELSE Whole(0),
              percentage_of_anxiety_list_found |->
                  IF Len(anxiety_words) > 0
                  THEN RMul(Num(Len(anxiety_counts), Len(anxiety_words)), Whole(100))
                  ELSE Whole(0) ]
        Counted(loop) == Stats(loop.anxiety_counts, loop.total_anxiety_words, Len(words))
    IN  Counted(CountMarkers(words, <<>>, 0))

\* --------------------------------------------------------- chi_square_test
\* scipy.stats.chi2_contingency on the 2x2 table [observed, expected], with
\* its default Yates continuity correction (1 degree of freedom).  The
\* library computes its own table of expected frequencies from the margins
\* of the table it is given; it raises ValueError when a cell is negative or
\* an internally computed expected frequency is 0, and yields nan when the
\* whole table is 0 (0/0 in the expected frequencies).
chi2_contingency(table) ==
    LET cells      == {<<i, j>> : i \in 1..2, j \in 1..2}
        rowsums    == <<RAdd(table[1][1], table[1][2]), RAdd(table[2][1], table[2][2])>>
        colsums    == <<RAdd(table[1][1], table[2][1]), RAdd(table[1][2], table[2][2])>>
        \* one cell: Yates-adjusted observation, then (adjusted - e)^2 / e
        Pearson(e, dev) == RDiv(RMul(dev, dev), e)
        Adjusted(o, e, diff) ==
            Pearson(e, RSub(RAdd(o, RMul(RMin(Num(1, 2), RAbs(diff)), RSign(diff))), e))
        Term(o, e) == Adjusted(o, e, RSub(e, o))
        Statistic(chi2) ==
            [raised |-> "no", chi2 |-> chi2, p |-> [k |-> "sf", n |-> chi2.n, d |-> chi2.d]]
        \* E: the table of expected frequencies computed from the margins
        WithExpected(E) ==
            IF \E c \in cells : IsZero(E[c])
            THEN [raised |-> "ValueError", chi2 |-> None, p |-> None]
            ELSE Statistic(RAdd(RAdd(Term(table[1][1], E[<<1, 1>>]),
                                     Term(table[1][2], E[<<1, 2>>])),
                                RAdd(Term(table[2][1], E[<<2, 1>>]),
                                     Term(table[2][2], E[<<2, 2>>]))))
        WithMargins(rows, cols, total) ==
            IF IsZero(total)
            THEN [raised |-> "no", chi2 |-> NaN, p |-> NaN]
            ELSE WithExpected([c \in cells |->
                                  RDiv(RMul(rows[c[1]], cols[c[2]]), total)])
    IN  IF \E c \in cells : table[c[1]][c[2]].n < 0
        THEN [raised |-> "ValueError", chi2 |-> None, p |-> None]
        ELSE WithMargins(rowsums, colsums, RAdd(rowsums[1], rowsums[2]))

\* The chi-square value (1 degree of freedom) whose survival function is
\* 0.05, to three decimals: 3.841.
Chi2Critical == Num(3841, 1000)

\* "p < 0.05" (analysis.py:214); any comparison with nan is False
PBelowAlpha(p) ==
    IF p.k = "sf" THEN RLt(Chi2Critical, Num(p.n, p.d)) ELSE FALSE

PyBool(b) == IF b THEN "True" ELSE "False"

\* The body of chi_square_test on total_words = len(words) and
\* anxiety_count = anxiety_stats['total_anxiety_words'].  can_import says
\* whether "from scipy.stats import chi2_contingency" (line 180) succeeds.
\* The ImportError handler reads total_words, which is assigned only after
\* the import, so that handler itself raises UnboundLocalError.
ChiSquareCore(total_words, anxiety_count, expected_ratio, can_import) ==
    LET non_anxiety_count == total_words - anxiety_count
        observed == <<Whole(anxiety_count), Whole(non_anxiety_count)>>
        Test(expected, res) ==
        IF ~can_import
        THEN [raised |-> "UnboundLocalError", value |-> <<>>]
        ELSE IF res.raised # "no"
        THEN [raised |-> "no",
              value  |-> [chi2_statistic             |-> None,
                          chi2_p_value               |-> None,
                          chi2_significant           |-> "None",
                          expected_anxiety_ratio     |-> expected_ratio,
                          expected_anxiety_count     |-> None,
                          observed_to_expected_ratio |-> None]]
        ELSE [raised |-> "no",
              value  |-> [chi2_statistic             |-> res.chi2,
                          chi2_p_value               |-> res.p,
                          chi2_significant           |-> PyBool(PBelowAlpha(res.p)),
                          expected_anxiety_ratio     |-> expected_ratio,
                          expected_anxiety_count     |-> expected[1],
                          observed_to_expected_ratio |->
                              IF expected[1].n > 0
                              THEN RDiv(Whole(anxiety_count), expected[1])
                              ELSE Inf]]
        Expected(expected) == Test(expected, chi2_contingency(<<observed, expected>>))
    IN  Expected(<<RMul(Whole(total_words), expected_ratio),
                   RMul(Whole(total_words), RSub(Whole(1), expected_ratio))>>)

\* ------------------------------------------------------------- file names
Suffix         == "_posts.json"
askreddit_file == <<"askreddit", Suffix>>

\* Files whose content main() may read, and files it can only list
CorpusFiles == {askreddit_file, <<"ptsd", Suffix>>, <<"gad", Suffix>>}
OtherFiles  == {<<"askreddit", Suffix, Suffix>>, <<"gad", Suffix, Suffix>>}
\* the script itself lies in the directory that main() lists
ScriptFile  == <<"analysis.py">>
FileNames   == CorpusFiles \cup OtherFiles \cup {ScriptFile}

\* f.endswith('_posts.json')
EndsWithSuffix(f) == Len(f) > 0 /\ f[Len(f)] = Suffix
\* json_file.replace('_posts.json', ''): every occurrence is removed
NotSuffix(part)   == part # Suffix
StripSuffix(f)    == SelectSeq(f, NotSuffix)
\* f"{file_prefix}_posts.json"
FileNameOf(file_prefix) == Append(file_prefix, Suffix)

Prefixes == {StripSuffix(f) : f \in FileNames}

\* ---------------------------------------------------------- file contents
Vocabulary == {"anxiety", "dog"}
TokenStreams == UNION {[1..n -> Vocabulary] : n \in 0..MaxTokens}

Absent       == [kind |-> "absent", words |-> <<>>]
InvalidJson  == [kind |-> "invalid_json", words |-> <<>>]
BadStructure == [kind |-> "bad_structure", words |-> <<>>]
Posts(words) == [kind |-> "posts", words |-> words]
\* a posts file is the token stream of its concatenated title, body and
\* comment text (analysis.py:32-45)
Contents     == {Absent, InvalidJson, BadStructure} \cup {Posts(w) : w \in TokenStreams}

VARIABLES
    scipy_available,  \* whether "from scipy.stats import ..." can succeed
    files,            \* the working directory: file name -> content
    pc,               \* position of the run
    uncaught,         \* the exception that ended the run, "" if none
    results,          \* main's results dict: prefix -> record
    baseline_ratio,   \* main's baseline_ratio
    baseline_source,  \* main's baseline_source (the CSV summary label)
    json_files,       \* the listed files the loop has still to visit
    csv,              \* summary rows written by write_to_csv
    ncalls,           \* prefix -> number of analyze_posts calls so far
    nok,              \* prefix -> number of those calls that returned True
    tested,           \* prefixes handed to chi_square_test
    chi_in,           \* arguments of a direct chi_square_test call
    chi_out,          \* what that call returned
    tok_words,        \* a token stream handed directly to the analysis
    tok_stats,        \* what analyze_anxiety_words returned for it
    tok_record,       \* the record of raw statistics built from it
    sc_pc,            \* position of a scrape_subreddit run
    sc_file,          \* content of <subreddit>_posts.json
    sc_stored,        \* content of that file when the run started
    save_interval,    \* scrape_subreddit's save_interval argument
    subreddit_posts,  \* permalinks of the posts fetch_subreddit_posts returns
    posts_data,       \* scrape_subreddit's posts_data list
    processed_permalinks, \* scrape_subreddit's processed_permalinks set
    loop_i,           \* the enumerate index of the last post visited
    sc_load_failed,   \* whether the except branch of lines 83-86 ran
    sc_succeeded      \* permalinks whose try body (lines 107-133) completed

mainVars == <<scipy_available, files, pc, uncaught, results, baseline_ratio,
          baseline_source, json_files, csv, ncalls, nok, tested>>

chiVars == <<chi_in, chi_out>>

tokVars == <<tok_words, tok_stats, tok_record>>

scrapeVars == <<sc_pc, sc_file, sc_stored, save_interval, subreddit_posts,
                posts_data, processed_permalinks, loop_i, sc_load_failed,
                sc_succeeded>>

vars == <<mainVars, chiVars, tokVars, scrapeVars>>

Exists(f) == f \in DOMAIN files /\ files[f].kind # "absent"

EmptyDict == [x \in {} |-> 0]
\* dict.update / item assignment
Update(d, e) == [x \in DOMAIN d \cup DOMAIN e |-> IF x \in DOMAIN e THEN e[x] ELSE d[x]]
\* dict.get(key) with default None
Get(d, key)  == IF key \in DOMAIN d THEN d[key] ELSE None

\* ------------------------------------------------------------ analyze_posts
chi_square_test(words, anxiety_stats, expected_ratio) ==
    ChiSquareCore(Len(words), anxiety_stats.total_anxiety_words,
                  expected_ratio, scipy_available)

\* RawStatistics with the ratio left as a percentage (the division by 100
\* of line 58 forgotten)
RawStatisticsPercentAsRatio(words, anxiety_stats) ==
    [ total_words             |-> Len(words),
      unique_words            |-> Len(Counter(words)),
      anxiety_word_count      |-> anxiety_stats.total_anxiety_words,
      unique_anxiety_words    |-> anxiety_stats.unique_anxiety_words,
      anxiety_word_percentage |-> anxiety_stats.percentage_of_all_words,
      anxiety_word_coverage   |-> anxiety_stats.percentage_of_anxiety_list_found,
      word_frequency          |-> SelectSeq(most_common(words), LAMBDA wc : wc[2] > 1),
      anxiety_word_frequency  |-> anxiety_stats.anxiety_counts,
      anxiety_word_ratio      |-> anxiety_stats.percentage_of_all_words ]

\* lines 57-71: the record of raw statistics assigned to results[file_prefix]
RawStatistics(words, anxiety_stats) ==
    [ total_words             |-> Len(words),
      unique_words            |-> Len(Counter(words)),
      anxiety_word_count      |-> anxiety_stats.total_anxiety_words,
      unique_anxiety_words    |-> anxiety_stats.unique_anxiety_words,
      anxiety_word_percentage |-> anxiety_stats.percentage_of_all_words,
      anxiety_word_coverage   |-> anxiety_stats.percentage_of_anxiety_list_found,
      word_frequency          |-> SelectSeq(most_common(words), LAMBDA wc : wc[2] > 1),
      anxiety_word_frequency  |-> anxiety_stats.anxiety_counts,
      anxiety_word_ratio      |-> RDiv(anxiety_stats.percentage_of_all_words, Whole(100)) ]

\* The label stored by line 79: 'askreddit' if baseline_ratio else 'default'
BaselineLabel(ratio) == IF Truthy(ratio) THEN "askreddit" ELSE "default"

\* analyze_posts assigning results[file_prefix] before the records of a
\* malformed file are read: the failed corpus leaves an entry behind.
analyze_posts_stores_on_failure(file_prefix, res, ratio) ==
    LET filename == FileNameOf(file_prefix)
        \* lines 73-82, with results[file_prefix] already assigned
        Tested(stored, chi) ==
            IF chi.raised # "no"
            THEN [results |-> stored, ok |-> FALSE, tested |-> TRUE] \* Exception
            ELSE [results |->
                      Update(stored, [x \in {file_prefix} |->
                          Update(Update(stored[file_prefix], chi.value),
                                 [y \in {"baseline_source"} |-> BaselineLabel(ratio)])]),
                  ok |-> TRUE, tested |-> TRUE]
        \* lines 54-82
        Loaded(words, anxiety_stats) ==
            IF ratio.k = "None"
            THEN [results |-> Update(res, [x \in {file_prefix} |->
                                              RawStatistics(words, anxiety_stats)]),
                  ok |-> TRUE, tested |-> FALSE]
            ELSE Tested(Update(res, [x \in {file_prefix} |->
                                        RawStatistics(words, anxiety_stats)]),
                        chi_square_test(words, anxiety_stats, ratio))
    IN  IF ~Exists(filename)
        THEN [results |-> res, ok |-> FALSE, tested |-> FALSE]   \* FileNotFoundError
        ELSE IF files[filename].kind = "invalid_json"
        THEN [results |-> res, ok |-> FALSE, tested |-> FALSE]   \* JSONDecodeError
        ELSE IF files[filename].kind = "bad_structure"
        THEN [results |-> Update(res, [x \in {file_prefix} |->
                                  RawStatistics(<<>>, analyze_anxiety_words(<<>>))]),
              ok |-> FALSE, tested |-> FALSE]
        ELSE Loaded(files[filename].words,
                    analyze_anxiety_words(files[filename].words))

\* analyze_posts(file_prefix, results, baseline_ratio): the dict after the
\* call, the returned flag, and whether chi_square_test was called.
analyze_posts(file_prefix, res, ratio) ==
    LET filename == FileNameOf(file_prefix)
        \* lines 73-82, with results[file_prefix] already assigned
        Tested(stored, chi) ==
            IF chi.raised # "no"
            THEN [results |-> stored, ok |-> FALSE, tested |-> TRUE] \* Exception
            ELSE [results |->
                      Update(stored, [x \in {file_prefix} |->
                          Update(Update(stored[file_prefix], chi.value),
                                 [y \in {"baseline_source"} |-> BaselineLabel(ratio)])]),
                  ok |-> TRUE, tested |-> TRUE]
        \* lines 54-82
        Loaded(words, anxiety_stats) ==
            IF ratio.k = "None"
            THEN [results |-> Update(res, [x \in {file_prefix} |->
                                              RawStatistics(words, anxiety_stats)]),
                  ok |-> TRUE, tested |-> FALSE]
            ELSE Tested(Update(res, [x \in {file_prefix} |->
                                        RawStatistics(words, anxiety_stats)]),
                        chi_square_test(words, anxiety_stats, ratio))
    IN  IF ~Exists(filename)
        THEN [results |-> res, ok |-> FALSE, tested |-> FALSE]   \* FileNotFoundError
        ELSE IF files[filename].kind = "invalid_json"
        THEN [results |-> res, ok |-> FALSE, tested |-> FALSE]   \* JSONDecodeError
        ELSE IF files[filename].kind = "bad_structure"
        THEN [results |-> res, ok |-> FALSE, tested |-> FALSE]   \* Exception
        ELSE Loaded(files[filename].words,
                    analyze_anxiety_words(files[filename].words))

\* ------------------------------------------------------------ write_to_csv
Fmt(x, digits) ==
    IF x.k = "None" THEN [text |-> "N/A", v |-> None, digits |-> 0]
    ELSE [text |-> "fixed", v |-> x, digits |-> digits]

Prefix50(s) == SubSeq(s, 1, IF Len(s) < 50 THEN Len(s) ELSE 50)

write_to_csv(res, source) ==
    [prefix \in DOMAIN res |->
        LET data == res[prefix]
        IN  [ total_words       |-> data.total_words,
              unique_words      |-> data.unique_words,
              anxiety_count     |-> data.anxiety_word_count,
              unique_anxiety    |-> data.unique_anxiety_words,
              anxiety_pct       |-> Fmt(data.anxiety_word_percentage, 2),
              coverage_pct      |-> Fmt(data.anxiety_word_coverage, 2),
              chi2_statistic    |-> Fmt(Get(data, "chi2_statistic"), 4),
              chi2_p_value      |-> Fmt(Get(data, "chi2_p_value"), 6),
              significant       |->
                  IF "chi2_significant" \in DOMAIN data
                     /\ data["chi2_significant"] = "True" THEN "Yes" ELSE "No",
              expected_count    |-> Fmt(Get(data, "expected_anxiety_count"), 2),
              observed_expected |-> Fmt(Get(data, "observed_to_expected_ratio"), 2),
              baseline_source   |-> source,
              word_frequency    |-> Prefix50(data.word_frequency),
              anxiety_frequency |-> data.anxiety_word_frequency ]]

\* -------------------------------------------------------------------- main
DefaultRatio == Num(5, 1000)
AskPrefix    == <<"askreddit">>

NoChiInput == [total_words |-> 0, anxiety_count |-> 0, expected_ratio |-> None]
NotCalled  == [raised |-> "not called", value |-> <<>>]

\* no token stream has been analysed directly
NotAnalyzed == [analyzed |-> FALSE]
NoTokens ==
    /\ tok_words = <<>>
    /\ tok_stats = NotAnalyzed
    /\ tok_record = NotAnalyzed

\* scrape_subreddit is not running
NoFile == [kind |-> "absent", items |-> <<>>]
NoScrape ==
    /\ sc_pc = "idle"
    /\ sc_file = NoFile
    /\ sc_stored = NoFile
    /\ save_interval = 1
    /\ subreddit_posts = <<>>
    /\ posts_data = <<>>
    /\ processed_permalinks = {}
    /\ loop_i = 0
    /\ sc_load_failed = FALSE
    /\ sc_succeeded = {}

Init ==
    /\ scipy_available \in BOOLEAN
    /\ \E c \in [CorpusFiles -> Contents], o \in [OtherFiles -> {Absent, Posts(<<>>)}] :
           files = c @@ o @@ [f \in {ScriptFile} |-> Posts(<<>>)]
    /\ pc = "import"
    /\ uncaught = ""
    /\ results = EmptyDict
    /\ baseline_ratio = None
    /\ baseline_source = [label |-> "default (0.5%)", ratio |-> None]
    /\ json_files = {}
    /\ csv = EmptyDict
    /\ ncalls = [p \in Prefixes |-> 0]
    /\ nok = [p \in Prefixes |-> 0]
    /\ tested = {}
    /\ chi_in = NoChiInput
    /\ chi_out = NotCalled
    /\ NoTokens
    /\ NoScrape

\* bookkeeping of one analyze_posts call
Record(prefix, r) ==
    /\ ncalls' = [ncalls EXCEPT ![prefix] = @ + 1]
    /\ nok' = IF r.ok THEN [nok EXCEPT ![prefix] = @ + 1] ELSE nok
    /\ tested' = IF r.tested THEN tested \cup {prefix} ELSE tested

\* lines 1-8: the module's imports
ImportModule ==
    /\ UNCHANGED <<chiVars, tokVars, scrapeVars>>
    /\ pc = "import"
    /\ IF scipy_available
       THEN pc' = "baseline" /\ uncaught' = uncaught
       ELSE pc' = "crashed" /\ uncaught' = "ImportError"
    /\ UNCHANGED <<scipy_available, files, results, baseline_ratio, baseline_source,
                   json_files, csv, ncalls, nok, tested>>

\* lines 338-353: AskReddit exists and is processed first
BaselineFromAskReddit ==
    /\ UNCHANGED <<chiVars, tokVars, scrapeVars>>
    /\ pc = "baseline"
    /\ Exists(askreddit_file)
    /\ \E r \in {analyze_posts(AskPrefix, results, None)} :
           /\ results' = r.results
           /\ Record(AskPrefix, r)
           /\ IF AskPrefix \in DOMAIN r.results
              THEN /\ baseline_ratio' = r.results[AskPrefix].anxiety_word_ratio
                   /\ baseline_source' = [label |-> "askreddit",
                                          ratio |-> baseline_ratio']
                   /\ pc' = "list"
                   /\ uncaught' = uncaught
              ELSE /\ pc' = "crashed"                 \* results['askreddit']
                   /\ uncaught' = "KeyError"
                   /\ UNCHANGED <<baseline_ratio, baseline_source>>
    /\ UNCHANGED <<scipy_available, files, json_files, csv>>

\* lines 354-357: no AskReddit file
BaselineDefault ==
    /\ UNCHANGED <<chiVars, tokVars, scrapeVars>>
    /\ pc = "baseline"
    /\ ~Exists(askreddit_file)
    /\ baseline_ratio' = DefaultRatio
    /\ pc' = "list"
    /\ UNCHANGED <<scipy_available, files, uncaught, results, baseline_source,
                   json_files, csv, ncalls, nok, tested>>

\* lines 359-366: list the directory, return if there is nothing at all
ListFiles ==
    /\ UNCHANGED <<chiVars, tokVars, scrapeVars>>
    /\ pc = "list"
    /\ json_files' = {f \in DOMAIN files :
                         Exists(f) /\ EndsWithSuffix(f) /\ f # askreddit_file}
    /\ pc' = IF json_files' = {} /\ ~Exists(askreddit_file) THEN "done" ELSE "loop"
    /\ UNCHANGED <<scipy_available, files, uncaught, results, baseline_ratio,
                   baseline_source, csv, ncalls, nok, tested>>

\* lines 369-374: one iteration of the loop; os.listdir fixes no order
LoopStep ==
    /\ UNCHANGED <<chiVars, tokVars, scrapeVars>>
    /\ pc = "loop"
    /\ \E json_file \in json_files :
          \E prefix \in {StripSuffix(json_file)} :
          \E r \in {analyze_posts(prefix, results, baseline_ratio)} :
              /\ results' = r.results
              /\ Record(prefix, r)
              /\ json_files' = json_files \ {json_file}
    /\ UNCHANGED <<scipy_available, files, pc, uncaught, baseline_ratio,
                   baseline_source, csv>>

\* line 377: the loop is over
WriteCsv ==
    /\ UNCHANGED <<chiVars, tokVars, scrapeVars>>
    /\ pc = "loop"
    /\ json_files = {}
    /\ csv' = write_to_csv(results, baseline_source)
    /\ pc' = "done"
    /\ UNCHANGED <<scipy_available, files, uncaught, results, baseline_ratio,
                   baseline_source, json_files, ncalls, nok, tested>>

Next ==
    \/ ImportModule
    \/ BaselineFromAskReddit
    \/ BaselineDefault
    \/ ListFiles
    \/ LoopStep
    \/ WriteCsv

Spec == Init /\ [][Next]_vars

\* ------------------------------------------- chi_square_test called directly
\* Expected ratios: every marker fraction of a corpus of up to MaxTotal
\* tokens, the default 0.005, and 0.01
Fractions == {<<a, n>> \in (0..MaxTotal) \X (1..MaxTotal) : a <= n}
ChiRatios == {Num(f[1], f[2]) : f \in Fractions} \cup {DefaultRatio, Num(1, 100)}

ChiCall(n, a, r) == [total_words |-> n, anxiety_count |-> a, expected_ratio |-> r]

\* Significance test with totalTokens=1000, markerCount=20, expectedRatio=0.01
SpecExample == ChiCall(1000, 20, Num(1, 100))

Counts    == {<<n, a>> \in (0..MaxTotal) \X (0..MaxTotal) : a <= n}
ChiInputs == {ChiCall(c[1], c[2], r) : c \in Counts, r \in ChiRatios}
                 \cup {SpecExample}

InitChi ==
    /\ scipy_available = TRUE
    /\ files = [f \in FileNames |-> Absent]
    /\ pc = "chi_square_test"
    /\ uncaught = ""
    /\ results = EmptyDict
    /\ baseline_ratio = None
    /\ baseline_source = [label |-> "default (0.5%)", ratio |-> None]
    /\ json_files = {}
    /\ csv = EmptyDict
    /\ ncalls = [p \in Prefixes |-> 0]
    /\ nok = [p \in Prefixes |-> 0]
    /\ tested = {}
    /\ chi_in \in ChiInputs
    /\ chi_out = NotCalled
    /\ NoTokens
    /\ NoScrape

CallChiSquareTest ==
    /\ pc = "chi_square_test"
    /\ chi_out = NotCalled
    /\ chi_out' = ChiSquareCore(chi_in.total_words, chi_in.anxiety_count,
                                chi_in.expected_ratio, scipy_available)
    /\ UNCHANGED <<mainVars, chi_in, tokVars, scrapeVars>>

NextChi == CallChiSquareTest

SpecChi == InitChi /\ [][NextChi]_vars

\* ------------------------------------------------ analysis of a token stream
\* analyze_posts from line 45 on, for any list of words that re.findall can
\* return: the matcher (line 55) and the record of lines 57-71.
TokVocabulary == {"anxiety", "panic", "dog", "cat"}
TokInputs     == UNION {[1..n -> TokVocabulary] : n \in 0..MaxWords}

InitTokens ==
    /\ scipy_available = TRUE
    /\ files = [f \in FileNames |-> Absent]
    /\ pc = "analyze_tokens"
    /\ uncaught = ""
    /\ results = EmptyDict
    /\ baseline_ratio = None
    /\ baseline_source = [label |-> "default (0.5%)", ratio |-> None]
    /\ json_files = {}
    /\ csv = EmptyDict
    /\ ncalls = [p \in Prefixes |-> 0]
    /\ nok = [p \in Prefixes |-> 0]
    /\ tested = {}
    /\ chi_in = NoChiInput
    /\ chi_out = NotCalled
    /\ tok_words \in TokInputs
    /\ tok_stats = NotAnalyzed
    /\ tok_record = NotAnalyzed
    /\ NoScrape

AnalyzeTokens ==
    /\ pc = "analyze_tokens"
    /\ tok_stats = NotAnalyzed
    /\ \E anxiety_stats \in {analyze_anxiety_words(tok_words)} :
           /\ tok_stats' = anxiety_stats
           /\ tok_record' = RawStatistics(tok_words, anxiety_stats)
    /\ UNCHANGED <<mainVars, chiVars, tok_words, scrapeVars>>

NextTokens == AnalyzeTokens

SpecTokens == InitTokens /\ [][NextTokens]_vars

\* ---------------------------------------------- download.py: scrape_subreddit
\* A post is known by its permalink (lines 81 and 100).
Permalinks == {"/r/a/1", "/r/a/2", "/r/a/3"}

\* an item of the posts file that is a post dict, as written by an earlier run
StoredPost(link) == [permalink |-> link, body |-> "stored"]
\* an item of the posts file that is valid JSON but not a dict
NotADict == [permalink |-> "no get()", body |-> "not a dict"]
\* lines 113-123: the post_data dict built from the scraped details
post_data(link) == [permalink |-> link, body |-> "scraped"]

StoredItems == {StoredPost(link) : link \in Permalinks} \cup {NotADict}
StoredLists == UNION {[1..n -> StoredItems] : n \in 0..MaxStored}
\* the file scrape_subreddit finds: none, one json.load rejects, or a list
ScrapeFiles == {NoFile, [kind |-> "invalid", items |-> <<>>]}
                   \cup {[kind |-> "list", items |-> l] : l \in StoredLists}
FetchedLists == UNION {[1..n -> Permalinks] : n \in 0..MaxFetched}

\* line 81 with the stored permalinks forgotten: nothing counts as processed
NoPermalinksOf(items) == {}

\* line 81: {post.get('permalink', '') for post in posts_data}
PermalinksOf(items) == {items[k].permalink : k \in DOMAIN items}

\* lines 148-160: the file is rewritten with the whole list
save_to_file(data) == [kind |-> "list", items |-> data]

InitScrape ==
    /\ scipy_available = TRUE
    /\ files = [f \in FileNames |-> Absent]
    /\ pc = "scrape_subreddit"
    /\ uncaught = ""
    /\ results = EmptyDict
    /\ baseline_ratio = None
    /\ baseline_source = [label |-> "default (0.5%)", ratio |-> None]
    /\ json_files = {}
    /\ csv = EmptyDict
    /\ ncalls = [p \in Prefixes |-> 0]
    /\ nok = [p \in Prefixes |-> 0]
    /\ tested = {}
    /\ chi_in = NoChiInput
    /\ chi_out = NotCalled
    /\ NoTokens
    /\ sc_pc = "load"
    /\ sc_file \in ScrapeFiles
    /\ sc_stored = sc_file
    /\ save_interval \in 1..MaxInterval
    /\ subreddit_posts \in FetchedLists
    /\ posts_data = <<>>
    /\ processed_permalinks = {}
    /\ loop_i = 0
    /\ sc_load_failed = FALSE
    /\ sc_succeeded = {}

\* lines 70-86: resume from the existing file.  json.load assigns posts_data
\* before line 81 reads the permalinks, so an item without get() leaves the
\* loaded list in posts_data and the set empty.
ResumeFromFile ==
    /\ sc_pc = "load"
    /\ sc_pc' = "fetch"
    /\ IF sc_file.kind = "list"
       THEN /\ posts_data' = sc_file.items
            /\ IF \E k \in DOMAIN sc_file.items : sc_file.items[k] = NotADict
               THEN processed_permalinks' = {} /\ sc_load_failed' = TRUE
               ELSE /\ processed_permalinks' = PermalinksOf(sc_file.items)
                    /\ sc_load_failed' = FALSE
       ELSE /\ posts_data' = <<>>
            /\ processed_permalinks' = {}
            /\ sc_load_failed' = (sc_file.kind = "invalid")
    /\ UNCHANGED <<mainVars, chiVars, tokVars, sc_file, sc_stored, save_interval,
                   subreddit_posts, loop_i, sc_succeeded>>

\* lines 91-96: the posts are fetched
FetchPosts ==
    /\ sc_pc = "fetch"
    /\ sc_pc' = "loop"
    /\ UNCHANGED <<mainVars, chiVars, tokVars, sc_file, sc_stored, save_interval,
                   subreddit_posts, posts_data, processed_permalinks, loop_i,
                   sc_load_failed, sc_succeeded>>

\* lines 99-105: the next post is already processed
SkipPost ==
    /\ sc_pc = "loop"
    /\ loop_i < Len(subreddit_posts)
    /\ subreddit_posts[loop_i + 1] \in processed_permalinks
    /\ loop_i' = loop_i + 1
    /\ UNCHANGED <<mainVars, chiVars, tokVars, sc_pc, sc_file, sc_stored,
                   save_interval, subreddit_posts, posts_data,
                   processed_permalinks, sc_load_failed, sc_succeeded>>

\* lines 99-133: the next post is scraped, appended, and the list is saved
\* when the enumerate index is a multiple of save_interval
ProcessPost ==
    /\ sc_pc = "loop"
    /\ loop_i < Len(subreddit_posts)
    /\ subreddit_posts[loop_i + 1] \notin processed_permalinks
    /\ loop_i' = loop_i + 1
    /\ posts_data' = Append(posts_data, post_data(subreddit_posts[loop_i + 1]))
    /\ processed_permalinks' = processed_permalinks \cup {subreddit_posts[loop_i + 1]}
    /\ sc_file' = IF (loop_i + 1) % save_interval = 0
                  THEN save_to_file(posts_data')
                  ELSE sc_file
    /\ sc_succeeded' = sc_succeeded \cup {subreddit_posts[loop_i + 1]}
    /\ UNCHANGED <<mainVars, chiVars, tokVars, sc_pc, sc_stored, save_interval,
                   subreddit_posts, sc_load_failed>>

\* lines 99-110 and 135-142: scraping the next post raises; the list is saved
PostError ==
    /\ sc_pc = "loop"
    /\ loop_i < Len(subreddit_posts)
    /\ subreddit_posts[loop_i + 1] \notin processed_permalinks
    /\ loop_i' = loop_i + 1
    /\ sc_file' = save_to_file(posts_data)
    /\ UNCHANGED <<mainVars, chiVars, tokVars, sc_pc, sc_stored, save_interval,
                   subreddit_posts, posts_data, processed_permalinks,
                   sc_load_failed, sc_succeeded>>

\* line 145: the final save after the loop
FinalSave ==
    /\ sc_pc = "loop"
    /\ loop_i = Len(subreddit_posts)
    /\ sc_pc' = "done"
    /\ sc_file' = save_to_file(posts_data)
    /\ UNCHANGED <<mainVars, chiVars, tokVars, sc_stored, save_interval,
                   subreddit_posts, posts_data, processed_permalinks, loop_i,
                   sc_load_failed, sc_succeeded>>

NextScrape ==
    \/ ResumeFromFile
    \/ FetchPosts
    \/ SkipPost
    \/ ProcessPost
    \/ PostError
    \/ FinalSave

SpecScrape == InitScrape /\ [][NextScrape]_vars

\* ===================================================================== claims
ChiFields == {"chi2_statistic", "chi2_p_value", "chi2_significant",
              "expected_anxiety_ratio", "expected_anxiety_count",
              "observed_to_expected_ratio"}

Readable(f)   == Exists(f) /\ files[f].kind = "posts"
Listed(f)     == Exists(f) /\ EndsWithSuffix(f) /\ f # askreddit_file
NonBaseline   == Prefixes \ {AskPrefix}
Has(p, field) == p \in DOMAIN results /\ field \in DOMAIN results[p]

\* marker tokens / total tokens of a token stream, 0 for the empty stream
MarkerFraction(words) ==
    IF Len(words) = 0 THEN Whole(0)
    ELSE Num(Cardinality({i \in DOMAIN words : words[i] \in Lexicon}), Len(words))

\* C1: for every combination of readable, missing and malformed corpus files
\* (the baseline's included) main() ends without an uncaught exception, and
\* every corpus that could be read is reported.
C1_BatchAlwaysCompletes ==
    scipy_available =>
        /\ pc # "crashed"
        /\ pc = "done" =>
              \A f \in FileNames :
                  (Readable(f) /\ EndsWithSuffix(f)) => StripSuffix(f) \in DOMAIN results

\* a loop call that did not return True
C2_FailureStep ==
    \A p \in Prefixes :
        (pc = "loop" /\ ncalls'[p] = ncalls[p] + 1 /\ nok'[p] = nok[p]) =>
            /\ results' = results
            /\ p \notin DOMAIN results'
            /\ pc' = "loop"

C2_FinalMapping ==
    pc = "done" =>
        /\ json_files = {}
        /\ \A f \in FileNames : Listed(f) => ncalls[StripSuffix(f)] >= 1
        /\ DOMAIN results = {p \in Prefixes : nok[p] > 0}

\* C2: a failing analyze_posts call of the loop returns False, leaves the
\* results mapping as it was, with no entry for that corpus, and the loop
\* goes on; at the end every listed file has been visited and the mapping
\* holds exactly the corpora whose analysis succeeded.
C2_FailedCorpusIsSkipped == [][C2_FailureStep]_vars /\ []C2_FinalMapping

\* a run that ended after one corpus failed and another, non-baseline one
\* was analyzed
C2_Witness ==
    /\ pc = "done"
    /\ \E p, q \in NonBaseline :
          /\ p # q
          /\ ncalls[p] = 1 /\ nok[p] = 0 /\ p \notin DOMAIN results
          /\ nok[q] = 1 /\ q \in DOMAIN results

\* C3: a present baseline corpus is analyzed exactly once, before any other
\* corpus, is never handed to the significance test, and its final record
\* has no chi-square field and no baseline_source.
C3_BaselineNotSelfTested ==
    Exists(askreddit_file) =>
        /\ ncalls[AskPrefix] = 0 => \A p \in Prefixes : ncalls[p] = 0
        /\ ncalls[AskPrefix] <= 1
        /\ AskPrefix \notin tested
        /\ pc = "done" =>
              /\ ncalls[AskPrefix] = 1
              /\ AskPrefix \in DOMAIN results
              /\ DOMAIN results[AskPrefix] \cap (ChiFields \cup {"baseline_source"}) = {}

\* C4: every successfully analyzed non-baseline corpus's record has
\* expected_anxiety_ratio equal to the run's baseline ratio: the baseline
\* corpus's marker fraction (the ratio of its own record) when the baseline
\* file is present, 0.005 otherwise.
C4_ExpectedRatioIsBaseline ==
    \A p \in NonBaseline :
        nok[p] > 0 =>
            /\ Has(p, "expected_anxiety_ratio")
            /\ IF Exists(askreddit_file)
               THEN /\ AskPrefix \in DOMAIN results
                    /\ results[p]["expected_anxiety_ratio"] =
                           results[AskPrefix]["anxiety_word_ratio"]
                    /\ results[p]["expected_anxiety_ratio"] =
                           MarkerFraction(files[askreddit_file].words)
               ELSE results[p]["expected_anxiety_ratio"] = Num(5, 1000)

\* a finished run in which two corpora were tested against a baseline
\* corpus whose marker fraction is 1/2
C4_Witness ==
    /\ pc = "done"
    /\ Readable(askreddit_file)
    /\ MarkerFraction(files[askreddit_file].words) = Num(1, 2)
    /\ \E p, q \in NonBaseline :
          /\ p # q /\ nok[p] > 0 /\ nok[q] > 0
          /\ Get(results[p], "expected_anxiety_ratio") = Num(1, 2)
          /\ Get(results[q], "expected_anxiety_ratio") = Num(1, 2)

\* C5: every successfully analyzed non-baseline corpus's record is tagged
\* 'askreddit' when the ratio came from an analyzed baseline corpus (whatever
\* its value, 0 included) and 'default' when the fixed 0.005 was used.
C5_BaselineSourceTag ==
    \A p \in NonBaseline :
        nok[p] > 0 =>
            /\ Has(p, "baseline_source")
            /\ results[p]["baseline_source"] =
                   IF Exists(askreddit_file) THEN "askreddit" ELSE "default"

\* C6: for a corpus with zero tokens the significance test does not raise;
\* statistic, p-value, expected marker count and observed/expected ratio are
\* all null, and the record with its raw statistics is stored.
C6_ZeroTokensNotComputable ==
    \A p \in tested :
        (Readable(FileNameOf(p)) /\ files[FileNameOf(p)].words = <<>>) =>
            /\ p \in DOMAIN results
            /\ results[p].total_words = 0
            /\ nok[p] > 0
            /\ Get(results[p], "chi2_statistic") = None
            /\ Get(results[p], "chi2_p_value") = None
            /\ Get(results[p], "expected_anxiety_count") = None
            /\ Get(results[p], "observed_to_expected_ratio") = None

\* C7: without scipy the batch is not aborted: every readable corpus is
\* stored, and each tested record has null statistic, p-value and
\* significance, while expected ratio, expected count (total x ratio) and
\* observed/expected ratio are populated.
C7_NoScipyDegrades ==
    ~scipy_available =>
        /\ pc # "crashed"
        /\ pc = "done" =>
              \A f \in CorpusFiles :
                  Readable(f) =>
                      LET p == StripSuffix(f)
                      IN  /\ p \in DOMAIN results
                          /\ p # AskPrefix =>
                                /\ Get(results[p], "chi2_statistic") = None
                                /\ Get(results[p], "chi2_p_value") = None
                                /\ Has(p, "chi2_significant")
                                /\ results[p]["chi2_significant"] = "None"
                                /\ Get(results[p], "expected_anxiety_ratio") = baseline_ratio
                                /\ Get(results[p], "expected_anxiety_count") =
                                       RMul(Whole(results[p].total_words), baseline_ratio)
                                /\ Get(results[p], "observed_to_expected_ratio") # None

ChiCalled == pc = "chi_square_test" /\ chi_out # NotCalled

\* C8: with totalTokens > 0 and markerCount in 0..totalTokens, the
\* observed/expected ratio is markerCount / (totalTokens x expectedRatio)
\* when that expected count is positive and infinite when it is 0,
\* markerCount = 0 included.
C8_ObservedToExpected ==
    (ChiCalled /\ chi_in.total_words > 0) =>
        /\ chi_out.raised = "no"
        /\ chi_out.value.observed_to_expected_ratio =
               IF IsZero(chi_in.expected_ratio) THEN Inf
               ELSE RDiv(Whole(chi_in.anxiety_count),
                         RMul(Whole(chi_in.total_words), chi_in.expected_ratio))

\* sum over the two categories of (observed - expected)^2 / expected
GoodnessOfFit(n, a, r) ==
    LET e1 == RMul(Whole(n), r)
        e2 == RMul(Whole(n), RSub(Whole(1), r))
        d1 == RSub(Whole(a), e1)
        d2 == RSub(Whole(n - a), e2)
    IN  RAdd(RDiv(RMul(d1, d1), e1), RDiv(RMul(d2, d2), e2))

\* C9: the statistic is the chi-square goodness-of-fit statistic of
\* [markerCount, totalTokens - markerCount] against
\* [totalTokens x r, totalTokens x (1 - r)], 'significant' is true iff its
\* p-value (1 degree of freedom) is below 0.05; for 1000, 20, 0.01 the
\* expected count is 10, the ratio 2 and significant is true.
C9_GoodnessOfFit ==
    (ChiCalled /\ chi_in.total_words > 0 /\ chi_in.expected_ratio.n > 0
               /\ RLt(chi_in.expected_ratio, Whole(1))) =>
        LET gof == GoodnessOfFit(chi_in.total_words, chi_in.anxiety_count,
                                 chi_in.expected_ratio)
        IN  /\ chi_out.raised = "no"
            /\ chi_out.value.chi2_statistic = gof
            /\ chi_out.value.chi2_significant = PyBool(RLt(Chi2Critical, gof))
            /\ chi_in = SpecExample =>
                  /\ chi_out.value.expected_anxiety_count = Whole(10)
                  /\ chi_out.value.observed_to_expected_ratio = Whole(2)
                  /\ chi_out.value.chi2_significant = "True"

\* C10: the lexicon has exactly 100 entries in every run, so the coverage
\* percentage of a record is (distinct markers observed / 100) x 100.
C10_LexiconOfHundred ==
    \A p \in DOMAIN results :
        /\ Len(anxiety_words) = 100
        /\ results[p].anxiety_word_coverage =
               RMul(Num(results[p].unique_anxiety_words, 100), Whole(100))

\* ------------------------------------------------- claims on a token stream
TokAnalyzed    == tok_stats # NotAnalyzed
DistinctTokens == {tok_words[i] : i \in DOMAIN tok_words}

RECURSIVE SumOfCounts(_)
SumOfCounts(counts) ==
    IF counts = <<>> THEN 0 ELSE Head(counts)[2] + SumOfCounts(Tail(counts))

\* C11: for any token sequence, the matcher's per-marker counts contain only
\* lexicon members with count >= 1, their sum equals the reported total of
\* marker occurrences, which is at most the number of tokens, and the
\* reported number of unique markers is at most min(lexicon size, number of
\* distinct tokens).
C11_MatcherCounts ==
    TokAnalyzed =>
        LET counts == tok_stats.anxiety_counts
        IN  /\ \A i \in DOMAIN counts :
                   counts[i][1] \in Lexicon /\ counts[i][2] >= 1
            /\ SumOfCounts(counts) = tok_stats.total_anxiety_words
            /\ tok_stats.total_anxiety_words <= Len(tok_words)
            /\ tok_stats.unique_anxiety_words <= Cardinality(Lexicon)
            /\ tok_stats.unique_anxiety_words <= Cardinality(DistinctTokens)

\* two markers, one of them twice, among words that are not markers
C11_Witness ==
    /\ TokAnalyzed
    /\ tok_words = <<"anxiety", "dog", "panic", "anxiety", "cat">>
    /\ tok_stats.total_anxiety_words = 3
    /\ tok_stats.unique_anxiety_words = 2

InPercentRange(x) ==
    x.k = "num" /\ ~RLt(x, Whole(0)) /\ ~RLt(Whole(100), x)

\* C12: for any token sequence, the empty one included, the marker
\* percentage and the lexicon coverage percentage are numbers in [0,100];
\* for zero tokens both are exactly 0 and the derived marker ratio is 0,
\* with no division by zero.
C12_PercentagesInRange ==
    TokAnalyzed =>
        /\ InPercentRange(tok_stats.percentage_of_all_words)
        /\ InPercentRange(tok_stats.percentage_of_anxiety_list_found)
        /\ tok_record.anxiety_word_percentage = tok_stats.percentage_of_all_words
        /\ tok_record.anxiety_word_coverage = tok_stats.percentage_of_anxiety_list_found
        /\ tok_record.anxiety_word_ratio.k = "num"
        /\ tok_words = <<>> =>
               /\ tok_stats.percentage_of_all_words = Whole(0)
               /\ tok_stats.percentage_of_anxiety_list_found = Whole(0)
               /\ tok_record.anxiety_word_ratio = Whole(0)

\* the corpus with zero tokens, analysed
C12_Witness ==
    /\ TokAnalyzed
    /\ tok_words = <<>>
    /\ tok_record.total_words = 0
    /\ tok_record.anxiety_word_ratio = Whole(0)

TimesIn(w)     == Cardinality({i \in DOMAIN tok_words : tok_words[i] = w})
FirstIndex(w)  == CHOOSE i \in DOMAIN tok_words :
                      /\ tok_words[i] = w
                      /\ \A j \in 1..(i - 1) : tok_words[j] # w
SpecFrequencyExample == <<"anxiety", "anxiety", "dog", "dog", "cat">>

\* C13: for any token sequence, the general frequency table holds exactly
\* the distinct tokens occurring at least 2 times, each with its exact
\* occurrence count, ordered by descending count, tokens of equal count in
\* the order of their first occurrence in the stream; anxiety, anxiety, dog,
\* dog, cat gives [(anxiety,2),(dog,2)].
C13_FrequencyTable ==
    TokAnalyzed =>
        LET table == tok_record.word_frequency
        IN  /\ {table[i][1] : i \in DOMAIN table} =
                   {w \in DistinctTokens : TimesIn(w) >= 2}
            /\ \A i, j \in DOMAIN table : table[i][1] = table[j][1] => i = j
            /\ \A i \in DOMAIN table : table[i][2] = TimesIn(table[i][1])
            /\ \A i, j \in DOMAIN table :
                   i < j => \/ table[i][2] > table[j][2]
                            \/ /\ table[i][2] = table[j][2]
                               /\ FirstIndex(table[i][1]) < FirstIndex(table[j][1])
            /\ tok_words = SpecFrequencyExample =>
                   table = << <<"anxiety", 2>>, <<"dog", 2>> >>

\* the stream of the example, analysed: two tokens tie at count 2 and the
\* token seen once is left out
C13_Witness ==
    /\ TokAnalyzed
    /\ tok_words = SpecFrequencyExample
    /\ Len(tok_record.word_frequency) = 2

\* ------------------------------------------------ claims on scrape_subreddit
IsPrefix(a, b) == Len(a) <= Len(b) /\ SubSeq(b, 1, Len(a)) = a
NoTwoAlike(items) ==
    \A k, l \in DOMAIN items : items[k].permalink = items[l].permalink => k = l

\* posts appended to posts_data that the file does not hold
Unsaved ==
    IF sc_file.kind = "list" /\ IsPrefix(sc_file.items, posts_data)
    THEN Len(posts_data) - Len(sc_file.items)
    ELSE Len(posts_data)

\* C14: during scrape_subreddit progress is saved every save_interval posts:
\* at every point of the processing loop the number of newly processed posts
\* held in memory but not yet written to the file is less than
\* save_interval, also in a run resumed from an existing file in which some
\* fetched posts are skipped as already processed.
C14_SavedEveryInterval ==
    sc_pc \in {"loop", "done"} => Unsaved < save_interval

\* the existing file loaded successfully and holds no duplicate permalinks
LoadedCleanly ==
    /\ sc_stored.kind = "list"
    /\ sc_pc \notin {"idle", "load"}
    /\ ~sc_load_failed
    /\ NoTwoAlike(sc_stored.items)

C15_State ==
    LoadedCleanly =>
        /\ IsPrefix(sc_stored.items, posts_data)
        /\ NoTwoAlike(posts_data)
        /\ sc_file.kind = "list"
        /\ IsPrefix(sc_stored.items, sc_file.items)
        /\ NoTwoAlike(sc_file.items)
        /\ sc_pc = "done" =>
               LET added == SubSeq(sc_file.items, Len(sc_stored.items) + 1,
                                   Len(sc_file.items))
               IN  /\ {added[k] : k \in DOMAIN added} =
                          {post_data(link) : link \in sc_succeeded}
                   /\ sc_succeeded \subseteq
                          {subreddit_posts[k] : k \in DOMAIN subreddit_posts}
                   /\ \A k \in DOMAIN sc_stored.items :
                          sc_stored.items[k].permalink \notin sc_succeeded

C15_Step ==
    LoadedCleanly =>
        /\ IsPrefix(posts_data, posts_data')
        /\ IsPrefix(sc_file.items, sc_file'.items)

\* C15: when the existing file loads successfully and holds no duplicate
\* permalinks, then after any sequence of loop iterations the in-memory list
\* and every version written to the file keep all previously stored records
\* unchanged as a prefix (append-only), contain no two records with the same
\* permalink, and the final file holds the loaded records plus exactly one
\* record per newly fetched distinct permalink whose processing succeeded.
C15_AppendOnlyNoDuplicates == []C15_State /\ [][C15_Step]_vars

\* a resumed run that skipped a stored post, lost one to an error, scraped a
\* new one and made its final save
C15_Witness ==
    /\ LoadedCleanly
    /\ sc_pc = "done"
    /\ Len(sc_stored.items) = 1
    /\ sc_stored.items[1].permalink \in
           {subreddit_posts[k] : k \in DOMAIN subreddit_posts}
    /\ Len(sc_file.items) = 2
    /\ \E link \in Permalinks :
           /\ link \in {subreddit_posts[k] : k \in DOMAIN subreddit_posts}
           /\ link \notin processed_permalinks

====
